---- MODULE Spec2Model ----
(***************************************************************************)
(* Model of src/python/src/mcp_server/run_hypercorn.py: the Hypercorn      *)
(* runner of the MCP server.  main() reads the port from the environment,  *)
(* builds the Hypercorn Config, prints the startup banner, obtains the     *)
(* ASGI app and runs asyncio.run(serve(app, config)); the __main__ block   *)
(* wraps main() in try / except KeyboardInterrupt / except Exception.      *)
(*                                                                         *)
(* Python strings are sequences of one-character strings; None is <<>>     *)
(* and a set value v is <<v>>.                                             *)
(***************************************************************************)
EXTENDS Integers, Sequences, FiniteSets, TLC

VARIABLES env, pc, host, port, config, configBuilds, app, listener,
          bindAttempts, served, out, e, exitStatus

vars == <<env, pc, host, port, config, configBuilds, app, listener,
          bindAttempts, served, out, e, exitStatus>>

\* ---------------------------------------------------------------- bounds
MaxLen == 4
MaxRequests == 2

\* characters an ARCHON_MCP_PORT value is drawn from
Chars == {"0", "9", "-", "+", " ", "a"}

RECURSIVE StringsUpTo(_)
StringsUpTo(n) ==
    IF n = 0 THEN {<<>>}
    ELSE LET shorter == StringsUpTo(n - 1)
         IN shorter \cup {Append(s, c) : s \in {t \in shorter : Len(t) = n - 1}, c \in Chars}

\* os.environ: ARCHON_MCP_PORT is unset (<<>>) or set to a string (<<s>>)
EnvValues == {<<>>} \cup {<<s>> : s \in StringsUpTo(MaxLen)}

\* ------------------------------------------------------- program constants
DefaultPortStr == <<"8", "0", "5", "1">>
HostStr == <<"0", ".", "0", ".", "0", ".", "0">>

\* --------------------------------------------------------- int() and str()
DigitChars == <<"0", "1", "2", "3", "4", "5", "6", "7", "8", "9">>

IsDigit(c) == \E i \in 1..10 : DigitChars[i] = c

DigitVal(c) == (CHOOSE i \in 1..10 : DigitChars[i] = c) - 1

IsSpace(c) == c = " "

RECURSIVE LStrip(_)
LStrip(s) == IF s # <<>> /\ IsSpace(Head(s)) THEN LStrip(Tail(s)) ELSE s

RECURSIVE RStrip(_)
RStrip(s) ==
    IF s # <<>> /\ IsSpace(s[Len(s)]) THEN RStrip(SubSeq(s, 1, Len(s) - 1)) ELSE s

Strip(s) == RStrip(LStrip(s))

RECURSIVE DigitsValue(_, _)
DigitsValue(s, acc) ==
    IF s = <<>> THEN acc ELSE DigitsValue(Tail(s), acc * 10 + DigitVal(Head(s)))

\* int(s): <<n>> when s is [space]* [+-]? digit+ [space]*, <<>> for ValueError
PyInt(s) ==
    LET t == Strip(s)
        signed == t # <<>> /\ Head(t) \in {"-", "+"}
        digits == IF signed THEN Tail(t) ELSE t
    IN IF digits = <<>> \/ \E i \in 1..Len(digits) : ~IsDigit(digits[i])
       THEN <<>>
       ELSE IF signed /\ Head(t) = "-"
            THEN <<0 - DigitsValue(digits, 0)>>
            ELSE <<DigitsValue(digits, 0)>>

RECURSIVE NatStr(_)
NatStr(n) ==
    IF n < 10 THEN <<DigitChars[n + 1]>>
    ELSE Append(NatStr(n \div 10), DigitChars[(n % 10) + 1])

\* str(n), as the f-strings format an int
PyStr(n) == IF n < 0 THEN <<"-">> \o NatStr(0 - n) ELSE NatStr(n)

\* os.getenv("ARCHON_MCP_PORT", "8051")
GetEnv(environ, default) == IF environ = <<>> THEN default ELSE environ[1]

\* f"{host}:{port}"
BindStr(h, p) == h \o <<":">> \o PyStr(p)

\* ------------------------------------------------------------------ state
NoException == [type |-> "none", at |-> "none"]

\* the Config fields main() assigns; unset before Config() is constructed
NoConfig == [bind |-> <<>>, alpn_protocols |-> <<>>, workers |-> 0,
             worker_class |-> "", accesslog |-> "", errorlog |-> "",
             loglevel |-> ""]

\* program points inside main(), i.e. inside the try block
MainPcs == {"start", "parsed", "configured", "bannered", "app_built", "serving"}

Line(stream, text, arg) == [stream |-> stream, text |-> text, arg |-> arg]

\* a socket can be bound only to a port of the TCP range
Bindable(p) == p \in 0..65535

Init ==
    /\ env \in EnvValues
    /\ pc = "start"
    /\ host = <<>>
    /\ port = <<>>
    /\ config = NoConfig
    /\ configBuilds = 0
    /\ app = "none"
    /\ listener = <<>>
    /\ bindAttempts = 0
    /\ served = 0
    /\ out = <<>>
    /\ e = NoException
    /\ exitStatus = <<>>

\* ----------------------------------------------------------------- main()
\* variant: the port is always the default, the environment is not consulted
ReadEnvPortIgnoresEnv ==
    /\ pc = "start"
    /\ host' = HostStr
    /\ port' = PyInt(DefaultPortStr)
    /\ pc' = "parsed"
    /\ UNCHANGED <<env, config, configBuilds, app, listener, bindAttempts,
                   served, out, e, exitStatus>>

\* host = "0.0.0.0"; port = int(os.getenv("ARCHON_MCP_PORT", "8051"))
ReadEnvPort ==
    /\ pc = "start"
    /\ LET parsed == PyInt(GetEnv(env, DefaultPortStr))
       IN IF parsed = <<>>
          THEN /\ e' = [type |-> "ValueError", at |-> "start"]
               /\ pc' = "except_Exception"
               /\ host' = HostStr
               /\ UNCHANGED port
          ELSE /\ host' = HostStr
               /\ port' = parsed
               /\ pc' = "parsed"
               /\ UNCHANGED e
    /\ UNCHANGED <<env, config, configBuilds, app, listener, bindAttempts,
                   served, out, exitStatus>>

\* config = Config(); config.bind = ...; ... config.loglevel = "INFO"
CreateConfig ==
    /\ pc = "parsed"
    /\ config' = [bind |-> <<BindStr(host, port[1])>>,
                  alpn_protocols |-> <<"h2", "http/1.1">>,
                  workers |-> 1,
                  worker_class |-> "asyncio",
                  accesslog |-> "-",
                  errorlog |-> "-",
                  loglevel |-> "INFO"]
    /\ configBuilds' = configBuilds + 1
    /\ pc' = "configured"
    /\ UNCHANGED <<env, host, port, app, listener, bindAttempts, served, out,
                   e, exitStatus>>

\* variant: the banner reports the default port instead of the one in use
PrintBannerDefaultPort ==
    /\ pc = "configured"
    /\ out' = out \o << Line("stdout", "Starting MCP server with Hypercorn", <<>>),
                        Line("stdout", "Host", host),
                        Line("stdout", "Port", DefaultPortStr),
                        Line("stdout", "HTTP/2", <<"E", "n", "a", "b", "l", "e", "d">>),
                        Line("stdout", "URL", host \o <<":">> \o DefaultPortStr) >>
    /\ pc' = "bannered"
    /\ UNCHANGED <<env, host, port, config, configBuilds, app, listener,
                   bindAttempts, served, e, exitStatus>>

\* the five print() calls of the startup banner
PrintBanner ==
    /\ pc = "configured"
    /\ out' = out \o << Line("stdout", "Starting MCP server with Hypercorn", <<>>),
                        Line("stdout", "Host", host),
                        Line("stdout", "Port", PyStr(port[1])),
                        Line("stdout", "HTTP/2", <<"E", "n", "a", "b", "l", "e", "d">>),
                        Line("stdout", "URL", BindStr(host, port[1])) >>
    /\ pc' = "bannered"
    /\ UNCHANGED <<env, host, port, config, configBuilds, app, listener,
                   bindAttempts, served, e, exitStatus>>

\* app = mcp.streamable_http_app(): returns the ASGI app or raises
GetApp ==
    /\ pc = "bannered"
    /\ \/ /\ app' = "asgi"
          /\ pc' = "app_built"
          /\ UNCHANGED e
       \/ /\ e' = [type |-> "AppError", at |-> "bannered"]
          /\ pc' = "except_Exception"
          /\ UNCHANGED app
    /\ UNCHANGED <<env, host, port, config, configBuilds, listener,
                   bindAttempts, served, out, exitStatus>>

\* variant: a failed bind is swallowed and tried again
BindSocketsRetry ==
    /\ pc = "app_built"
    /\ bindAttempts < 3
    /\ bindAttempts' = bindAttempts + 1
    /\ \/ /\ Bindable(port[1])
          /\ listener' = config.bind
          /\ pc' = "serving"
       \/ /\ UNCHANGED <<listener, pc>>
    /\ UNCHANGED <<env, host, port, config, configBuilds, app, served, out,
                   e, exitStatus>>

\* asyncio.run(serve(app, config)), first part: the sockets of config.bind
\* are created; an unbindable or busy address raises out of asyncio.run
BindSockets ==
    /\ pc = "app_built"
    /\ bindAttempts' = bindAttempts + 1
    /\ \/ /\ Bindable(port[1])
          /\ listener' = config.bind
          /\ pc' = "serving"
          /\ UNCHANGED e
       \/ /\ e' = [type |-> "OSError", at |-> "app_built"]
          /\ pc' = "except_Exception"
          /\ UNCHANGED listener
    /\ UNCHANGED <<env, host, port, config, configBuilds, app, served, out,
                   exitStatus>>

\* variant: serving a request rewrites a field of the configuration
HandleRequestReconfigures ==
    /\ pc = "serving"
    /\ served < MaxRequests
    /\ served' = served + 1
    /\ config' = [config EXCEPT !.workers = 2]
    /\ UNCHANGED <<env, pc, host, port, configBuilds, app, listener,
                   bindAttempts, out, e, exitStatus>>

\* the serve loop dispatches one request to the app
HandleRequest ==
    /\ pc = "serving"
    /\ served < MaxRequests
    /\ served' = served + 1
    /\ UNCHANGED <<env, pc, host, port, config, configBuilds, app, listener,
                   bindAttempts, out, e, exitStatus>>

\* an exception other than KeyboardInterrupt leaves asyncio.run while serving
ServeFault ==
    /\ pc = "serving"
    /\ e' = [type |-> "RuntimeFault", at |-> "serving"]
    /\ pc' = "except_Exception"
    /\ UNCHANGED <<env, host, port, config, configBuilds, app, listener,
                   bindAttempts, served, out, exitStatus>>

\* serve() completes, main() returns, the script ends: exit status 0
ServeReturn ==
    /\ pc = "serving"
    /\ pc' = "exited"
    /\ exitStatus' = <<0>>
    /\ UNCHANGED <<env, host, port, config, configBuilds, app, listener,
                   bindAttempts, served, out, e>>

\* variant: the interrupt is caught by the generic handler
\* (as with "except BaseException")
InterruptCaughtAsFault ==
    /\ pc \in MainPcs
    /\ e' = [type |-> "KeyboardInterrupt", at |-> pc]
    /\ pc' = "except_Exception"
    /\ UNCHANGED <<env, host, port, config, configBuilds, app, listener,
                   bindAttempts, served, out, exitStatus>>

\* SIGINT while main() runs: KeyboardInterrupt is raised at the current point
Interrupt ==
    /\ pc \in MainPcs
    /\ e' = [type |-> "KeyboardInterrupt", at |-> pc]
    /\ pc' = "except_KeyboardInterrupt"
    /\ UNCHANGED <<env, host, port, config, configBuilds, app, listener,
                   bindAttempts, served, out, exitStatus>>

\* ------------------------------------------------------- __main__ wrapper
\* variant: the interrupt handler ends the script without the notice
OnKeyboardInterruptSilent ==
    /\ pc = "except_KeyboardInterrupt"
    /\ exitStatus' = <<0>>
    /\ pc' = "exited"
    /\ UNCHANGED <<env, host, port, config, configBuilds, app, listener,
                   bindAttempts, served, out, e>>

\* except KeyboardInterrupt: print(...); the script ends with status 0
OnKeyboardInterrupt ==
    /\ pc = "except_KeyboardInterrupt"
    /\ out' = Append(out, Line("stdout", "MCP server stopped by user", <<>>))
    /\ exitStatus' = <<0>>
    /\ pc' = "exited"
    /\ UNCHANGED <<env, host, port, config, configBuilds, app, listener,
                   bindAttempts, served, e>>

\* variant: the trace is not printed
OnExceptionNoTrace ==
    /\ pc = "except_Exception"
    /\ out' = Append(out, Line("stdout", "Fatal error", <<e.type>>))
    /\ exitStatus' = <<1>>
    /\ pc' = "exited"
    /\ UNCHANGED <<env, host, port, config, configBuilds, app, listener,
                   bindAttempts, served, e>>

\* variant: sys.exit(1) is missing, the script ends with status 0
OnExceptionNoExit ==
    /\ pc = "except_Exception"
    /\ out' = out \o << Line("stdout", "Fatal error", <<e.type>>),
                        Line("stderr", "Traceback", <<e.type>>) >>
    /\ exitStatus' = <<0>>
    /\ pc' = "exited"
    /\ UNCHANGED <<env, host, port, config, configBuilds, app, listener,
                   bindAttempts, served, e>>

\* variant: the wrapper restarts main() after a fault
OnExceptionRestart ==
    /\ pc = "except_Exception"
    /\ e.at = "serving"
    /\ pc' = "start"
    /\ UNCHANGED <<env, host, port, config, configBuilds, app, listener,
                   bindAttempts, served, out, e, exitStatus>>

\* except Exception as e: print(...); traceback.print_exc(); sys.exit(1)
OnException ==
    /\ pc = "except_Exception"
    /\ out' = out \o << Line("stdout", "Fatal error", <<e.type>>),
                        Line("stderr", "Traceback", <<e.type>>) >>
    /\ exitStatus' = <<1>>
    /\ pc' = "exited"
    /\ UNCHANGED <<env, host, port, config, configBuilds, app, listener,
                   bindAttempts, served, e>>

Next ==
    \/ ReadEnvPort
    \/ CreateConfig
    \/ PrintBanner
    \/ GetApp
    \/ BindSockets
    \/ HandleRequest
    \/ ServeFault
    \/ ServeReturn
    \/ Interrupt
    \/ OnKeyboardInterrupt
    \/ OnException

Spec == Init /\ [][Next]_vars

\* the interpreter runs the statements of the script to its end; only the
\* serve loop may run forever
FairSpec ==
    /\ Spec
    /\ WF_vars(ReadEnvPort) /\ WF_vars(CreateConfig) /\ WF_vars(PrintBanner)
    /\ WF_vars(GetApp) /\ WF_vars(BindSockets)
    /\ WF_vars(OnKeyboardInterrupt) /\ WF_vars(OnException)

\* ------------------------------------------------ lifecycle state of a run
State ==
    CASE pc \in {"start", "parsed"} -> "UNCONFIGURED"
      [] pc \in {"configured", "bannered", "app_built"} -> "CONFIGURED"
      [] pc = "serving" -> "LISTENING"
      [] pc = "except_KeyboardInterrupt" -> "SHUTTING_DOWN"
      [] pc = "except_Exception" -> "FAULTED"
      [] pc = "exited" -> "STOPPED"

Rank(st) ==
    CASE st = "UNCONFIGURED" -> 0
      [] st = "CONFIGURED" -> 1
      [] st = "LISTENING" -> 2
      [] st \in {"SHUTTING_DOWN", "FAULTED"} -> 3
      [] st = "STOPPED" -> 4

Printed(text) == \E i \in 1..Len(out) : out[i].text = text

PrintedOn(stream, text) ==
    \E i \in 1..Len(out) : out[i].text = text /\ out[i].stream = stream

TypeOK ==
    /\ env \in EnvValues
    /\ pc \in MainPcs \cup {"except_KeyboardInterrupt", "except_Exception", "exited"}
    /\ Len(port) <= 1
    /\ configBuilds \in 0..1
    /\ served \in 0..MaxRequests
    /\ Len(exitStatus) <= 1


\* ------------------------------------------------ vocabulary of the claims
FaultTypes == {"ValueError", "AppError", "OSError", "RuntimeFault"}

AllDigits(s) == s # <<>> /\ \A i \in 1..Len(s) : IsDigit(s[i])

\* the decimal value of a digit string, by positional weights
DecimalValue(s) ==
    LET n == Len(s)
        pow10[k \in 0..n] == IF k = 0 THEN 1 ELSE 10 * pow10[k - 1]
        sum[i \in 0..n] == IF i = 0 THEN 0 ELSE sum[i - 1] + DigitVal(s[i]) * pow10[n - i]
    IN sum[n]

\* a digit string without its leading zeros
Canonical(s) ==
    LET first == CHOOSE i \in 1..Len(s) : s[i] # "0" /\ \A j \in 1..(i - 1) : s[j] = "0"
    IN SubSeq(s, first, Len(s))

IsPositiveIntString(s) == AllDigits(s) /\ \E i \in 1..Len(s) : s[i] # "0"

\* the invalid values the specification lists: empty, non-numeric (holds a
\* letter), zero, negative integer
IsInvalidPortString(s) ==
    \/ s = <<>>
    \/ \E i \in 1..Len(s) : s[i] = "a"
    \/ AllDigits(s) /\ \A i \in 1..Len(s) : s[i] = "0"
    \/ Len(s) > 1 /\ Head(s) = "-" /\ AllDigits(Tail(s))

InvalidOrAbsent == env = <<>> \/ IsInvalidPortString(env[1])

InterruptedWhileServing == e = [type |-> "KeyboardInterrupt", at |-> "serving"]

FaultedWhileServing == e = [type |-> "RuntimeFault", at |-> "serving"]

Stopped == pc = "exited"

\* ------------------------------------------------------------------- C1
\* C1 (as stated): for every invalid value of ARCHON_MCP_PORT (non-numeric,
\* empty, zero, negative) and for the absent case, once the port has been
\* read it is the default 8051 and no ValueError is on its way to the
\* wrapper: no fatal diagnostic, no exit status 1 from the port value.
C1_InvalidPortFallsBack ==
    (InvalidOrAbsent /\ pc # "start" /\ e.at # "start")
        => /\ port = <<8051>>
           /\ e.type # "ValueError"
           /\ ~(Printed("Fatal error") /\ e.type = "ValueError")

\* ------------------------------------------------------------------- C2
\* C2: for every positive-integer string p in ARCHON_MCP_PORT, the
\* configuration main() builds has port p and the single bind address
\* "0.0.0.0:p" (p in canonical decimal).
C2_ValidPortConfigured ==
    (env # <<>> /\ configBuilds > 0 /\ IsPositiveIntString(env[1]))
        => /\ port = <<DecimalValue(env[1])>>
           /\ config.bind = << <<"0", ".", "0", ".", "0", ".", "0", ":">> \o Canonical(env[1]) >>

C2_Witness ==
    /\ env = << <<"9", "0", "0", "0">> >>
    /\ pc = "configured"
    /\ port = <<9000>>
    /\ config.bind = << <<"0", ".", "0", ".", "0", ".", "0", ":", "9", "0", "0", "0">> >>

\* ------------------------------------------------------------------- C3
\* C3: whenever KeyboardInterrupt is raised while the server is serving,
\* the run goes to the interrupt handler and on to exit; the exit status is
\* 0 and the shutdown notice is in the output whenever the status is set.
C3_InterruptWhileServing ==
    /\ [](InterruptedWhileServing =>
            /\ State \in {"SHUTTING_DOWN", "STOPPED"}
            /\ exitStatus # <<>> => (exitStatus = <<0>> /\ PrintedOn("stdout", "MCP server stopped by user"))
            /\ Stopped => exitStatus = <<0>>)
    /\ (InterruptedWhileServing ~> Stopped)

C3_Witness ==
    /\ InterruptedWhileServing
    /\ Stopped
    /\ served > 0
    /\ exitStatus = <<0>>
    /\ Printed("MCP server stopped by user")

\* ------------------------------------------------------------------- C4
\* C4 (as stated): whenever a non-interrupt fault is raised during serving,
\* the run ends with exit status 1 and both the diagnostic message and the
\* fault trace were emitted to the error stream before the exit.
C4_Original ==
    (FaultedWhileServing /\ exitStatus # <<>>)
        => /\ exitStatus = <<1>>
           /\ PrintedOn("stderr", "Fatal error")
           /\ PrintedOn("stderr", "Traceback")

\* C4 (amended): whenever a non-interrupt fault is raised during serving,
\* the run ends with exit status 1; before the exit the diagnostic message
\* was printed to standard output and the fault trace to the error stream.
C4_FaultWhileServing ==
    /\ [](FaultedWhileServing =>
            /\ State \in {"FAULTED", "STOPPED"}
            /\ Stopped => exitStatus = <<1>>
            /\ exitStatus # <<>> =>
                 \E i, j \in 1..Len(out) :
                    /\ i < j
                    /\ out[i] = Line("stdout", "Fatal error", <<"RuntimeFault">>)
                    /\ out[j] = Line("stderr", "Traceback", <<"RuntimeFault">>))
    /\ (FaultedWhileServing ~> (Stopped /\ exitStatus = <<1>>))

C4_Witness ==
    /\ FaultedWhileServing
    /\ Stopped
    /\ served > 0
    /\ exitStatus = <<1>>
    /\ PrintedOn("stderr", "Traceback")

\* ------------------------------------------------------------------- C5
\* C5: the lifecycle state only moves forward in the order UNCONFIGURED,
\* CONFIGURED, LISTENING, SHUTTING_DOWN | FAULTED, STOPPED: every step
\* keeps the state or moves to a later one, so no state is entered twice,
\* and STOPPED has no successor.
C5_ForwardOnly ==
    [][ /\ State' # State => Rank(State') > Rank(State)
        /\ State = "STOPPED" => State' = "STOPPED" ]_vars

C5_Witness ==
    /\ State = "STOPPED"
    /\ served > 0
    /\ e.type = "KeyboardInterrupt"
    /\ configBuilds = 1
    /\ listener # <<>>

\* ------------------------------------------------------------------- C6
\* C6 (as stated): SHUTTING_DOWN and FAULTED are entered from LISTENING
\* only; an interrupt or fault before LISTENING takes no transition the
\* state machine lacks.
C6_Original ==
    [][ (State' \in {"SHUTTING_DOWN", "FAULTED"} /\ State' # State)
            => State = "LISTENING" ]_vars

\* C6 (amended): SHUTTING_DOWN is entered only by an interrupt and FAULTED
\* only by an uncaught fault, each from whichever of UNCONFIGURED,
\* CONFIGURED or LISTENING the run is in when it happens; the only
\* successor of either is STOPPED, and every run that enters either
\* reaches STOPPED.
C6_EntryAndTermination ==
    /\ [](State = "SHUTTING_DOWN" => e.type = "KeyboardInterrupt")
    /\ [](State = "FAULTED" => e.type \in FaultTypes)
    /\ [][ (State' \in {"SHUTTING_DOWN", "FAULTED"} /\ State' # State)
             => State \in {"UNCONFIGURED", "CONFIGURED", "LISTENING"} ]_vars
    /\ [][ (State \in {"SHUTTING_DOWN", "FAULTED"}) => (State' \in {State, "STOPPED"}) ]_vars
    /\ (State \in {"SHUTTING_DOWN", "FAULTED"} ~> State = "STOPPED")

C6_Witness ==
    /\ State = "FAULTED"
    /\ e = [type |-> "OSError", at |-> "app_built"]
    /\ env = <<>>

\* ------------------------------------------------------------------- C7
\* C7: a bind failure is terminal: the bind is attempted at most once, a
\* failed bind is followed by no listener and no served request, and the
\* failure reaches the wrapper, which ends the process with status 1.
C7_BindFailureTerminal ==
    /\ [](bindAttempts <= 1)
    /\ [](e.type = "OSError" =>
            /\ pc \in {"except_Exception", "exited"}
            /\ listener = <<>>
            /\ served = 0
            /\ Stopped => (exitStatus = <<1>> /\ Printed("Fatal error")))
    /\ (e.type = "OSError" ~> (Stopped /\ exitStatus = <<1>>))

C7_Witness ==
    /\ e.type = "OSError"
    /\ Stopped
    /\ bindAttempts = 1
    /\ Bindable(port[1])
    /\ exitStatus = <<1>>

C10_ExitPartition ==
    /\ exitStatus # <<>> <=> Stopped
    /\ Stopped =>
         /\ exitStatus \in {<<0>>, <<1>>}
         /\ exitStatus = <<1>> <=> (e.type \in FaultTypes /\ Printed("Fatal error"))
         /\ exitStatus = <<0>> <=> e.type \in {"KeyboardInterrupt", "none"}
    /\ ~(Printed("MCP server stopped by user") /\ Printed("Fatal error"))
    /\ Printed("Fatal error") => e.type \in FaultTypes
    /\ Printed("MCP server stopped by user") => e.type = "KeyboardInterrupt"

C10_Witness ==
    /\ Stopped
    /\ e = NoException
    /\ exitStatus = <<0>>
    /\ served > 0

====
